---- MODULE Spec2Model ----
(***************************************************************************)
(* A model of rename.py: the name normaliser format_name, the entity       *)
(* renamer rename_entity and the tree walker walk_directory.               *)
(*                                                                         *)
(* A Python str is a sequence of one-character strings, so that the        *)
(* regular expressions of format_name are computed character by character. *)
(* None and the empty string are both the empty sequence (the code only    *)
(* tests them for truth).                                                  *)
(***************************************************************************)
EXTENDS Integers, Sequences, FiniteSets, TLC

(***************************************************************************)
(* Characters and character classes of the re module.  The characters of   *)
(* the model are those of Latin-1 (U+0001 to U+00FF); the classes are      *)
(* those of Python's str patterns on them.                                 *)
(***************************************************************************)
\* the characters str.lower() changes, and what it changes them to
UpperSeq == << "A","B","C","D","E","F","G","H","I","J","K","L","M",
               "N","O","P","Q","R","S","T","U","V","W","X","Y","Z",
               "À","Á","Â","Ã","Ä","Å","Æ","Ç","È","É","Ê","Ë","Ì",
               "Í","Î","Ï","Ð","Ñ","Ò","Ó","Ô","Õ","Ö","Ø","Ù","Ú",
               "Û","Ü","Ý","Þ" >>
LowerSeq == << "a","b","c","d","e","f","g","h","i","j","k","l","m",
               "n","o","p","q","r","s","t","u","v","w","x","y","z",
               "à","á","â","ã","ä","å","æ","ç","è","é","ê","ë","ì",
               "í","î","ï","ð","ñ","ò","ó","ô","õ","ö","ø","ù","ú",
               "û","ü","ý","þ" >>
UpperSet == { UpperSeq[i] : i \in 1..Len(UpperSeq) }
LowerSet == { LowerSeq[i] : i \in 1..Len(LowerSeq) }
\* \d
Digits == { "0","1","2","3","4","5","6","7","8","9" }
\* the other alphanumerics: letters str.lower() leaves alone, superscripts
\* and fractions
OtherWordChars == { "ª","²","³","µ","¹","º","¼","½","¾","ß","ÿ" }
\* \w
WordChars == UpperSet \cup LowerSet \cup Digits \cup OtherWordChars \cup { "_" }
\* \s, which is also what str.strip() strips: the space, TAB, LF, CR, FF,
\* VT, U+001C to U+001F, U+0085 and U+00A0
SpaceChars == { "\t","\n","","\f","\r","","","",""," ",""," " }

LowerMap == [ c \in UpperSet |-> LowerSeq[CHOOSE i \in 1..Len(UpperSeq) : UpperSeq[i] = c] ]
\* str.lower() of one character; re.IGNORECASE compares characters in lower
\* case
Lower(c) == IF c \in UpperSet THEN LowerMap[c] ELSE c

None == << >>

\* s[i:] and s[:i-1] of a Python str, 1-based
From(s, i) == SubSeq(s, i, Len(s))
Upto(s, i) == SubSeq(s, 1, i)

\* the literal pat occurs in s at position i (flags=re.IGNORECASE)
MatchAt(pat, s, i) ==
    /\ i + Len(pat) - 1 <= Len(s)
    /\ \A k \in 1..Len(pat) : Lower(s[i + k - 1]) = Lower(pat[k])

\* four digits start at position i: \d{4}
YearAt(s, i) ==
    /\ i + 3 <= Len(s)
    /\ \A k \in 0..3 : s[i + k] \in Digits

(***************************************************************************)
(* os.path.splitext: the extension is the suffix from the last dot of the  *)
(* last path component, unless only dots precede it in that component      *)
(***************************************************************************)
splitext(p) ==
    LET seps     == { i \in 1..Len(p) : p[i] = "/" }
        dots     == { i \in 1..Len(p) : p[i] = "." }
        sepIndex == IF seps = {} THEN 0 ELSE CHOOSE i \in seps : \A j \in seps : j <= i
        dotIndex == IF dots = {} THEN 0 ELSE CHOOSE i \in dots : \A j \in dots : j <= i
    IN  IF dotIndex > sepIndex /\ \E j \in (sepIndex + 1)..(dotIndex - 1) : p[j] # "."
        THEN << Upto(p, dotIndex - 1), From(p, dotIndex) >>
        ELSE << p, << >> >>

(***************************************************************************)
(* Helpers for re.sub: the characters of s at the positions of K, in       *)
(* order, and the positions covered by the leftmost non-overlapping        *)
(* matches, where ends[i] is the last position of the match that starts at *)
(* i, or 0 when none does (re.sub scans left to right and resumes after    *)
(* each match)                                                             *)
(***************************************************************************)
Keep(s, K) ==
    LET idx == SelectSeq([ i \in 1..Len(s) |-> i ], LAMBDA i : i \in K)
    IN  [ j \in 1..Len(idx) |-> s[idx[j]] ]

RECURSIVE Covered(_, _)
Covered(ends, from) ==
    LET starts == { i \in DOMAIN ends : i >= from /\ ends[i] > 0 }
    IN  IF starts = {} THEN {}
        ELSE LET c == CHOOSE i \in starts : \A j \in starts : i <= j
             IN  (c..ends[c]) \cup Covered(ends, ends[c] + 1)

RemoveMatches(s, ends) ==
    IF \A i \in DOMAIN ends : ends[i] = 0 THEN s
    ELSE Keep(s, (1..Len(s)) \ Covered(ends, 1))

(***************************************************************************)
(* str.replace('&', 'and')                                                 *)
(***************************************************************************)
ReplaceAmp(s) ==
    LET And    == << "a", "n", "d" >>
        off(i) == i + 2 * Cardinality({ k \in 1..(i - 1) : s[k] = "&" })
        n      == off(Len(s) + 1) - 1
    IN  [ j \in 1..n |->
            LET i == CHOOSE i \in 1..Len(s) :
                        off(i) <= j /\ j < off(i + 1)
            IN  IF s[i] = "&" THEN And[j - off(i) + 1] ELSE s[i] ]

(***************************************************************************)
(* re.match(r'^[\w\s]+ \(\d{4}\)$', s)                                     *)
(***************************************************************************)
\* the whole of s is matched: word and space characters, a space, a year
\* in parentheses
CorrectFormat(s) ==
    LET n == Len(s)
    IN  /\ n >= 8
        /\ \A i \in 1..(n - 7) : s[i] \in WordChars \cup SpaceChars
        /\ s[n - 6] = " "
        /\ s[n - 5] = "("
        /\ YearAt(s, n - 4)
        /\ s[n] = ")"

\* $ matches at the end of s and before a newline that ends s
MatchesCorrectFormat(s) ==
    \/ CorrectFormat(s)
    \/ s # << >> /\ s[Len(s)] = "\n" /\ CorrectFormat(Upto(s, Len(s) - 1))

(***************************************************************************)
(* re.sub(r'[\._-]+', ' ', s): every run becomes one space                 *)
(***************************************************************************)
Separators == { ".", "_", "-" }

\* s with every maximal run of characters of class C replaced by one space
SubRuns(s, C) ==
    LET last == { i \in 1..Len(s) : s[i] \notin C \/ i = Len(s) \/ s[i + 1] \notin C }
        t    == [ i \in 1..Len(s) |-> IF s[i] \in C THEN " " ELSE s[i] ]
    IN  Keep(t, last)

SubSeparators(s) == SubRuns(s, Separators)

(***************************************************************************)
(* re.sub(pattern, '', s, flags=re.IGNORECASE) for a literal pattern:      *)
(* leftmost non-overlapping occurrences are dropped in one pass            *)
(***************************************************************************)
RemoveLiteral(pat, s) ==
    RemoveMatches(s, [ i \in 1..Len(s) |->
                         IF MatchAt(pat, s, i) THEN i + Len(pat) - 1 ELSE 0 ])

(***************************************************************************)
(* re.sub(r'\.S\d+E\d+\.', '', s, flags=re.IGNORECASE)                     *)
(***************************************************************************)
\* the end of the maximal run of characters of class C that starts at
\* position i (i - 1 if none): a greedy C*
RunEnd(s, i, C) ==
    CHOOSE j \in (i - 1)..Len(s) :
        /\ \A k \in i..j : s[k] \in C
        /\ j = Len(s) \/ s[j + 1] \notin C

\* the last position of a match of \.S\d+E\d+\. starting at i, or 0
SeasonEpisodeEnd(s, i) ==
    IF ~ (i + 1 <= Len(s) /\ s[i] = "." /\ Lower(s[i + 1]) = "s") THEN 0
    ELSE LET a == RunEnd(s, i + 2, Digits)
         IN  IF ~ (a >= i + 2 /\ a + 1 <= Len(s) /\ Lower(s[a + 1]) = "e") THEN 0
             ELSE LET b == RunEnd(s, a + 2, Digits)
                  IN  IF b >= a + 2 /\ b + 1 <= Len(s) /\ s[b + 1] = "." THEN b + 1 ELSE 0

RemoveSeasonEpisode(s) ==
    RemoveMatches(s, [ i \in 1..Len(s) |-> SeasonEpisodeEnd(s, i) ])

(***************************************************************************)
(* patterns_to_remove, in the order of the list.  A pattern is a literal   *)
(* (every metacharacter of the list is escaped) except \.S\d+E\d+\.        *)
(***************************************************************************)
Lit(p) == [ regex |-> FALSE, lit |-> p ]
SeasonEpisodePattern == [ regex |-> TRUE, lit |-> << >> ]

patterns_to_remove == <<
    Lit(<< "[","1","0","8","0","p","]" >>),
    Lit(<< "[","4","8","0","p","]" >>),
    Lit(<< "[","W","E","B","R","i","p","]" >>),
    Lit(<< "[","B","l","u","R","a","y","]" >>),
    Lit(<< "[","5",".","1","]" >>),
    Lit(<< "[","Y","T","S",".","M","X","]" >>),
    Lit(<< "[","2","1","6","0","p","]" >>),
    Lit(<< "[","4","K","]" >>),
    Lit(<< "[","W","E","B","]" >>),
    Lit(<< "x","2","6","4" >>),
    Lit(<< "x","2","6","5" >>),
    Lit(<< "H","2","6","4" >>),
    Lit(<< "H","2","6","5" >>),
    Lit(<< ".","H","D","R","." >>),
    SeasonEpisodePattern,
    Lit(<< ".","A","C","3","." >>),
    Lit(<< ".","E","A","C","3","." >>),
    Lit(<< ".","A","A","C","." >>),
    Lit(<< ".","M","P","3","." >>),
    Lit(<< ".","A","V","C","." >>),
    Lit(<< "H","E","V","C" >>),
    Lit(<< "-" >>) >>

RemovePattern(p, s) ==
    IF p.regex THEN RemoveSeasonEpisode(s) ELSE RemoveLiteral(p.lit, s)

\* for pattern in patterns_to_remove: name = re.sub(pattern, '', name, ...),
\* from the k-th pattern on.  The test on Len(s) has TLC compute the name
\* the previous pattern left before it goes on to the next one.
RECURSIVE RemovePatternsFrom(_, _)
RemovePatternsFrom(k, s) ==
    IF k > Len(patterns_to_remove) \/ Len(s) < 0 THEN s
    ELSE RemovePatternsFrom(k + 1, RemovePattern(patterns_to_remove[k], s))

RemovePatterns(s) == RemovePatternsFrom(1, s)

(***************************************************************************)
(* re.search(r'(\d{4})', s): the leftmost four digits, or None             *)
(***************************************************************************)
YearStarts(s) == { i \in 1..Len(s) : YearAt(s, i) }

SearchYear(s) ==
    IF YearStarts(s) = {} THEN None
    ELSE LET i == CHOOSE i \in YearStarts(s) : \A j \in YearStarts(s) : i <= j
         IN  SubSeq(s, i, i + 3)

(***************************************************************************)
(* re.sub of line 40: a greedy group of any characters, then \d{4}, then   *)
(* any characters, replaced by the group.  "Any character" is any but the  *)
(* newline, so every line of s is replaced on its own; the greedy group    *)
(* takes all it can, so what is kept of a line is what precedes the last   *)
(* four digits of the line                                                 *)
(***************************************************************************)
\* positions i and j of s lie on one line
SameLine(s, i, j) ==
    \A k \in (IF i < j THEN i ELSE j)..(IF i < j THEN j ELSE i) : s[k] # "\n"

TruncateAtYear(s) ==
    IF YearStarts(s) = {} THEN s
    ELSE Keep(s, { i \in 1..Len(s) :
                     \/ s[i] = "\n"
                     \/ \A j \in YearStarts(s) : ~ SameLine(s, i, j)
                     \/ \E j \in YearStarts(s) : SameLine(s, i, j) /\ i < j })

(***************************************************************************)
(* str.strip()                                                             *)
(***************************************************************************)
Strip(s) ==
    LET solid == { i \in 1..Len(s) : s[i] \notin SpaceChars }
    IN  IF solid = {} THEN << >>
        ELSE SubSeq(s, CHOOSE i \in solid : \A j \in solid : i <= j,
                       CHOOSE i \in solid : \A j \in solid : j <= i)

(***************************************************************************)
(* re.sub(r'\(\s*\)', '', s)                                               *)
(***************************************************************************)
\* the last position of a match of \(\s*\) starting at i, or 0
EmptyParensEnd(s, i) ==
    IF s[i] # "(" THEN 0
    ELSE LET a == RunEnd(s, i + 1, SpaceChars)
         IN  IF a + 1 <= Len(s) /\ s[a + 1] = ")" THEN a + 1 ELSE 0

RemoveEmptyParens(s) ==
    RemoveMatches(s, [ i \in 1..Len(s) |-> EmptyParensEnd(s, i) ])

(***************************************************************************)
(* re.sub(r'[-\s]+$', '', s): the trailing run of hyphens and whitespace   *)
(***************************************************************************)
StripTrailing(s) ==
    LET solid == { i \in 1..Len(s) : s[i] \notin SpaceChars \cup { "-" } }
    IN  IF solid = {} THEN << >>
        ELSE Upto(s, CHOOSE i \in solid : \A j \in solid : j <= i)

(***************************************************************************)
(* re.sub(r'\s+', ' ', s)                                                  *)
(***************************************************************************)
CollapseSpaces(s) == SubRuns(s, SpaceChars)

(***************************************************************************)
(* format_name(entity, is_file, year_from_file)                            *)
(***************************************************************************)
\* lines 36-37: the year is the first four digits of the cleaned name,
\* else the caller's
YearOf(name, year_from_file) ==
    IF SearchYear(name) # None THEN SearchYear(name) ELSE year_from_file

\* lines 31-34
CleanName(entity) == RemovePatterns(SubSeparators(entity))

\* lines 39-43
WithYear(name, year) ==
    IF year # << >>
    THEN Strip(Strip(TruncateAtYear(name))) \o << " ", "(" >> \o year \o << ")" >>
    ELSE RemoveEmptyParens(name)

\* lines 45-46
Tidy(name) == Strip(CollapseSpaces(Strip(StripTrailing(name))))

format_name(entity, is_file, year_from_file) ==
    LET parts     == IF is_file THEN splitext(entity) ELSE << entity, << >> >>
        stem      == ReplaceAmp(parts[1])
        extension == parts[2]
    IN  IF MatchesCorrectFormat(splitext(stem)[1])
        THEN stem \o extension
        ELSE LET name == CleanName(stem)
                 new  == Tidy(WithYear(name, YearOf(name, year_from_file)))
             IN  IF is_file THEN new \o extension ELSE new

(***************************************************************************)
(* The filesystem.  An entry has an identity (a number), a name, the       *)
(* directory it lies in, a kind and, for a directory, what the user who    *)
(* runs the program may do with it: "rwx" (everything), "r-x" (list it and *)
(* pass through it, but not change its entries) or "---" (nothing); a      *)
(* privileged user has "rwx" on every directory.  The filesystem is a      *)
(* function from the identities of the entries that exist.  Root is the    *)
(* root directory of the filesystem: it is its own parent, the user has    *)
(* "rwx" on it, and it is the working directory of the program.  A path is *)
(* the sequence of the components its string has between the slashes       *)
(* ("lib" is one component, "lib/" is "lib" and an empty component).       *)
(***************************************************************************)
Root == 0
NoEntry == -1

\* the longest name and the longest path the filesystem accepts, in bytes
NAME_MAX == 255
PATH_MAX == 4096

\* the characters whose UTF-8 encoding takes two bytes
WideChars == {
    "", "", "", "", "", "", "", "", "", "", "", "", "", "", "", "",
    "", "", "", "", "", "", "", "", "", "", "", "", "", "", "", "",
    " ", "¡", "¢", "£", "¤", "¥", "¦", "§", "¨", "©", "ª", "«", "¬", "­", "®", "¯",
    "°", "±", "²", "³", "´", "µ", "¶", "·", "¸", "¹", "º", "»", "¼", "½", "¾", "¿",
    "À", "Á", "Â", "Ã", "Ä", "Å", "Æ", "Ç", "È", "É", "Ê", "Ë", "Ì", "Í", "Î", "Ï",
    "Ð", "Ñ", "Ò", "Ó", "Ô", "Õ", "Ö", "×", "Ø", "Ù", "Ú", "Û", "Ü", "Ý", "Þ", "ß",
    "à", "á", "â", "ã", "ä", "å", "æ", "ç", "è", "é", "ê", "ë", "ì", "í", "î", "ï",
    "ð", "ñ", "ò", "ó", "ô", "õ", "ö", "÷", "ø", "ù", "ú", "û", "ü", "ý", "þ", "ÿ" }

\* len(os.fsencode(name))
ByteLen(name) == Len(name) + Cardinality({ i \in 1..Len(name) : name[i] \in WideChars })

\* the bytes of components lo..hi of a path
RECURSIVE SumLen(_, _, _)
SumLen(path, lo, hi) ==
    IF lo > hi THEN 0
    ELSE IF lo = hi THEN ByteLen(path[lo])
    ELSE LET mid == (lo + hi) \div 2
         IN  SumLen(path, lo, mid) + SumLen(path, mid + 1, hi)

\* len(os.fsencode(path)) of the path string: its components and the
\* slashes between them
PathLen(path) ==
    IF path = << >> THEN 0 ELSE SumLen(path, 1, Len(path)) + Len(path) - 1

\* ENAMETOOLONG: a component or the whole path is longer than the system
\* allows
TooLong(path) ==
    \/ PathLen(path) >= PATH_MAX
    \/ \E k \in 1..Len(path) : ByteLen(path[k]) > NAME_MAX

Children(f, d) == { i \in DOMAIN f : f[i].parent = d }

IsDir(f, i) == i = Root \/ (i \in DOMAIN f /\ f[i].kind = "dir")

\* what the user may do with directory d
Access(f, d) == IF d = Root THEN "rwx" ELSE f[d].access
\* the user may list the entries of d (r)
Readable(f, d) == IsDir(f, d) /\ Access(f, d) \in { "rwx", "r-x" }
\* the user may look a name up in d (x)
Searchable(f, d) == IsDir(f, d) /\ Access(f, d) \in { "rwx", "r-x" }
\* the user may add, remove and rename entries of d (w and x)
Writable(f, d) == IsDir(f, d) /\ Access(f, d) = "rwx"

\* the directory '..' names in directory d
Parent(f, d) == IF d = Root THEN Root ELSE f[d].parent

\* entry i is entry a or lies beneath it
RECURSIVE Beneath(_, _, _)
Beneath(f, a, i) ==
    IF i = a THEN TRUE
    ELSE IF i \notin DOMAIN f THEN FALSE
    ELSE Beneath(f, a, f[i].parent)

\* the entry named n in directory d, or NoEntry
Lookup(f, d, n) ==
    IF \E i \in Children(f, d) : f[i].name = n
    THEN CHOOSE i \in Children(f, d) : f[i].name = n
    ELSE NoEntry

\* the entry a list of names leads to from directory d, or NoEntry: each
\* name is looked up in a directory the user may search, and '..' names
\* the parent of the directory
RECURSIVE ResolveFrom(_, _, _)
ResolveFrom(f, d, names) ==
    IF names = << >> THEN d
    ELSE IF ~ Searchable(f, d) THEN NoEntry
    ELSE LET n    == Head(names)
             next == IF n = << ".", "." >> THEN Parent(f, d) ELSE Lookup(f, d, n)
         IN  ResolveFrom(f, next, Tail(names))

\* a component that names the directory it is looked up in: '.', and the
\* empty component of a leading, doubled or trailing slash
Here(n) == n = << >> \/ n = << "." >>

\* the entry a path names, or NoEntry (the OS raises an error).  Relative
\* and absolute paths both start at Root; the empty string names nothing;
\* a path that ends in a slash names a directory only, and one that ends
\* in '.' a directory the user may search.
Resolve(f, path) ==
    LET names == SelectSeq(path, LAMBDA n : ~ Here(n))
        e     == ResolveFrom(f, Root, names)
        after == { k \in 1..Len(path) : \A j \in k..Len(path) : Here(path[j]) }
    IN  IF path = << << >> >> \/ TooLong(path) THEN NoEntry
        ELSE IF (\E k \in after : path[k] = << "." >>) /\ ~ Searchable(f, e) THEN NoEntry
        ELSE IF after # {} /\ ~ IsDir(f, e) THEN NoEntry
        ELSE e

\* the path names a directory the user may list: os.listdir and os.scandir
\* raise OSError on every other path
CanList(f, path) == Readable(f, Resolve(f, path))

\* the orders in which a directory listing may return the entries of S:
\* os.listdir and os.scandir return them in arbitrary order
Listing(S) ==
    { l \in [ 1..Cardinality(S) -> S ] : \A i \in S : \E k \in DOMAIN l : l[k] = i }

\* os.listdir(path) on directory d: the names of its entries, in each of
\* the orders the call may return them
listdir(f, d) ==
    { [ k \in DOMAIN l |-> f[l[k]].name ] : l \in Listing(Children(f, d)) }

\* the components of a path string
SplitPath(p) ==
    LET seps   == { i \in 1..Len(p) : p[i] = "/" }
        cut(k) == IF k = 0 THEN 0
                  ELSE IF k > Cardinality(seps) THEN Len(p) + 1
                  ELSE CHOOSE i \in seps : Cardinality({ j \in seps : j <= i }) = k
    IN  [ k \in 1..(Cardinality(seps) + 1) |-> SubSeq(p, cut(k - 1) + 1, cut(k) - 1) ]

\* os.path.basename(path)
basename(path) == path[Len(path)]

\* os.path.join(path, name): a name that starts with a slash replaces the
\* path, and no slash is added to a path that is empty or ends with one
join(path, name) ==
    IF name # << >> /\ name[1] = "/" THEN SplitPath(name)
    ELSE IF path[Len(path)] = << >> THEN Upto(path, Len(path) - 1) \o SplitPath(name)
    ELSE path \o SplitPath(name)

\* str.startswith('.')
startswith_dot(name) == name # << >> /\ name[1] = "."
\* str.startswith('._')
startswith_dot_underscore(name) == Len(name) >= 2 /\ name[1] = "." /\ name[2] = "_"
\* str.lower()
lower(name) == [ i \in 1..Len(name) |-> Lower(name[i]) ]

(***************************************************************************)
(* os.rename(src, dst) on POSIX.  A file replaces an existing file and a   *)
(* directory replaces an existing empty directory; a path onto itself is   *)
(* left alone.  OSError is raised for every other clash, for a missing     *)
(* source or destination directory, for a directory of the source or of    *)
(* the destination whose entries the user may not change, for a directory  *)
(* the user may not change that is moved to another directory, for a last  *)
(* component '.' or '..', for a directory moved beneath itself, for a file *)
(* given a trailing slash and for a name or a path that is too long.  The  *)
(* result is the filesystem afterwards and whether the call raised.        *)
(***************************************************************************)
RECURSIVE StripSlashes(_)
StripSlashes(path) ==
    IF Len(path) > 1 /\ path[Len(path)] = << >>
    THEN StripSlashes(Upto(path, Len(path) - 1))
    ELSE path

Dots == { << "." >>, << ".", "." >> }

\* the directory in which the last component of a path is looked up
DirOf(f, path) ==
    IF Len(path) = 1 THEN Root
    ELSE Resolve(f, Upto(path, Len(path) - 1) \o << << >> >>)

os_rename(f, src, dst) ==
    LET srcT == StripSlashes(src)
        dstT == StripSlashes(dst)
        s    == Resolve(f, src)
        n    == basename(dstT)
        d    == DirOf(f, dstT)
        t    == Lookup(f, d, n)
        fail == [ fs |-> f, raised |-> TRUE ]
        same == [ fs |-> f, raised |-> FALSE ]
        move == [ f EXCEPT ![s].name = n, ![s].parent = d ]
        over == [ i \in DOMAIN f \ { t } |-> move[i] ]
    IN  IF TooLong(src) \/ TooLong(dst) THEN fail
        ELSE IF s \notin DOMAIN f THEN fail
        ELSE IF basename(srcT) \in Dots \/ n \in Dots \/ n = << >> THEN fail
        ELSE IF ~ Searchable(f, d) THEN fail
        ELSE IF dstT # dst /\ ~ IsDir(f, s) THEN fail
        ELSE IF t = s THEN same
        ELSE IF ~ Writable(f, f[s].parent) \/ ~ Writable(f, d) THEN fail
        ELSE IF IsDir(f, s) /\ Beneath(f, s, d) THEN fail
        ELSE IF IsDir(f, s) /\ d # f[s].parent /\ ~ Writable(f, s) THEN fail
        ELSE IF t = NoEntry THEN [ fs |-> move, raised |-> FALSE ]
        ELSE IF f[s].kind = "file" /\ f[t].kind = "file"
             THEN [ fs |-> over, raised |-> FALSE ]
        ELSE IF f[s].kind = "dir" /\ f[t].kind = "dir" /\ Children(f, t) = {}
             THEN [ fs |-> over, raised |-> FALSE ]
        ELSE fail

(***************************************************************************)
(* rename_entity(root_path, entity, dry_run, ignored_dirs, is_file)        *)
(***************************************************************************)
ignore_extensions == {
    << ".","v","o","b" >>, << ".","i","n","f","o" >>, << ".","n","f","o" >>,
    << ".","i","f","o" >>, << ".","b","u","p" >>, << ".","l","o","g" >>,
    << ".","p","y" >> }

\* lines 75-82: the first four digits found in the name of a child that is
\* not hidden, in the order of the listing, or None
RECURSIVE FirstYear(_)
FirstYear(names) ==
    IF names = << >> THEN None
    ELSE IF ~ startswith_dot(Head(names)) /\ SearchYear(Head(names)) # None
         THEN SearchYear(Head(names))
    ELSE FirstYear(Tail(names))

\* PerformRename without the test of dry_run: the rename is made in a dry run too
PerformRenameInDryRun(f, original_path, new_path, dry) ==
    IF original_path = new_path THEN [ fs |-> f, op |-> "noop" ]
    ELSE LET r == os_rename(f, original_path, new_path)
         IN  IF r.raised THEN [ fs |-> f, op |-> "error" ]
             ELSE [ fs |-> r.fs, op |-> "renamed" ]

\* lines 87-97: what is done with the new path.  The result is the
\* filesystem afterwards and the message logged.
PerformRename(f, original_path, new_path, dry) ==
    IF original_path = new_path THEN [ fs |-> f, op |-> "noop" ]
    ELSE IF dry THEN [ fs |-> f, op |-> "dry" ]
    ELSE LET r == os_rename(f, original_path, new_path)
         IN  IF r.raised THEN [ fs |-> f, op |-> "error" ]
             ELSE [ fs |-> r.fs, op |-> "renamed" ]

\* The call as a whole, listing being what os.listdir returns at line 75
\* (read for a directory only): the filesystem afterwards, the message
\* logged (one per call), the new path when one was computed (else no
\* path), and the entry the call was about.  "raise" is an exception that
\* leaves the function: the OSError of os.listdir at line 75, which lies
\* outside the try statement, on a path that names no directory the user
\* may list.
NoPath == << >>

rename_entity(f, root_path, entity, dry, ignored, is_file, listing) ==
    LET original_path == join(root_path, entity)
        skip(what) == [ fs |-> f, op |-> what, new_path |-> NoPath,
                        entry |-> Resolve(f, original_path) ]
    IN  IF startswith_dot(entity) THEN skip("skip_hidden")
        ELSE IF basename(root_path) \in ignored THEN skip("skip_ignored")
        ELSE IF lower(splitext(entity)[2]) \in ignore_extensions THEN skip("skip_extension")
        ELSE IF startswith_dot_underscore(entity) THEN skip("skip_fork")
        ELSE IF ~ is_file /\ ~ CanList(f, original_path) THEN skip("raise")
        ELSE LET year_from_file == IF is_file THEN None ELSE FirstYear(listing)
                 new_name == format_name(entity, is_file, year_from_file)
                 new_path == join(root_path, new_name)
                 r == PerformRename(f, original_path, new_path, dry)
             IN  [ fs |-> r.fs, op |-> r.op, new_path |-> new_path,
                   entry |-> Resolve(f, original_path) ]

(***************************************************************************)
(* walk_directory: os.walk(directory, topdown=True) and the loop body      *)
(***************************************************************************)
\* line 102: dirs[:] = [d for d in dirs if not d.startswith('.') and d not in ignored_dirs]
FilterDirs(names, ignored) ==
    SelectSeq(names, LAMBDA d : ~ startswith_dot(d) /\ d \notin ignored)

\* line 104: files = [f for f in files if not f.startswith('.')]
FilterFiles(names) == SelectSeq(names, LAMBDA n : ~ startswith_dot(n))

\* os.walk's listing of a directory whose entries os.scandir returned in
\* the order l: the names of its subdirectories and of its other entries
scandir(f, l) ==
    [ dirs    |-> [ k \in 1..Len(SelectSeq(l, LAMBDA i : f[i].kind = "dir")) |->
                      f[SelectSeq(l, LAMBDA i : f[i].kind = "dir")[k]].name ],
      nondirs |-> [ k \in 1..Len(SelectSeq(l, LAMBDA i : f[i].kind # "dir")) |->
                      f[SelectSeq(l, LAMBDA i : f[i].kind # "dir")[k]].name ] ]

(***************************************************************************)
(* The inputs of the model: the names entries are drawn from, the          *)
(* filesystems and the command lines                                       *)
(***************************************************************************)
MaxEntries == 2

NameCanonical == << "a"," ","(","2","0","1","9",")" >>
NameDashed == << "a","-","2","0","1","9" >>
NameUnderscored == << "a","_","2","0","1","9" >>
NameHidden == << ".","a","-","2","0","1","9" >>
NameSkip == << "s","k","i","p" >>
NameLib == << "l","i","b" >>
\* the default of --log
NameLog == << "r","e","n","a","m","i","n","g",".","l","o","g" >>
NameUp == << ".","." >>
NameDot == << "." >>

NameSeq == << NameCanonical, NameDashed, NameUnderscored, NameHidden,
             NameSkip >>
Names == { NameSeq[k] : k \in 1..Len(NameSeq) }

\* The command lines: the directory argument, --ignore-dirs and --log, and
\* whether the user who runs the program is privileged (every directory
\* is "rwx" for a privileged user).  anchor is the name of a directory
\* that exists in the working directory when the program starts, and the
\* other entries lie beneath it unless spread.  The directory arguments
\* are "lib", "skip", "skip/", ".", "a_2019/..", "/lib" and "lib/a-2019",
\* which need not exist or be a directory.
Invocations == {
    [ directory |-> << NameLib >>, ignored |-> {}, log |-> << NameLog >>,
      anchor |-> NameLib, spread |-> FALSE, privileged |-> FALSE ],
    [ directory |-> << NameLib >>, ignored |-> { NameSkip }, log |-> << NameLog >>,
      anchor |-> NameLib, spread |-> FALSE, privileged |-> FALSE ],
    [ directory |-> << NameSkip >>, ignored |-> { NameSkip }, log |-> << NameLog >>,
      anchor |-> NameSkip, spread |-> FALSE, privileged |-> TRUE ],
    [ directory |-> << NameSkip, << >> >>, ignored |-> { NameSkip }, log |-> << NameLog >>,
      anchor |-> NameSkip, spread |-> FALSE, privileged |-> TRUE ],
    [ directory |-> << NameDot >>, ignored |-> {}, log |-> << NameLog >>,
      anchor |-> NameLib, spread |-> FALSE, privileged |-> TRUE ],
    [ directory |-> << NameUnderscored, NameUp >>, ignored |-> {}, log |-> << NameLog >>,
      anchor |-> NameUnderscored, spread |-> TRUE, privileged |-> TRUE ],
    [ directory |-> << NameLib, NameDashed >>, ignored |-> {}, log |-> << NameLog >>,
      anchor |-> NameLib, spread |-> FALSE, privileged |-> TRUE ],
    [ directory |-> << << >>, NameLib >>, ignored |-> {}, log |-> << NameLog >>,
      anchor |-> NameLib, spread |-> FALSE, privileged |-> TRUE ] }

\* what the user may do with a directory
Accesses(privileged) == IF privileged THEN { "rwx" } ELSE { "rwx", "r-x", "---" }

\* what an entry can be: a file, or a directory with one of the accesses
Kinds(privileged) ==
    { [ kind |-> "file", access |-> "rwx" ] } \cup
    { [ kind |-> "dir", access |-> a ] : a \in Accesses(privileged) }

Restricted(t) == { i \in DOMAIN t : t[i].access # "rwx" }

\* An identity says nothing about the place of the entry in a listing, so
\* one numbering is taken for each filesystem: the anchor first, then
\* directory by directory, the entries of a directory in the order of
\* NameSeq
Later(t, d, nm) ==
    \/ Len(t) = 1
    \/ t[Len(t)].parent < d
    \/ /\ t[Len(t)].parent = d
       /\ \E a, b \in 1..Len(NameSeq) :
              NameSeq[a] = t[Len(t)].name /\ NameSeq[b] = nm /\ a < b

\* the filesystems of the anchor and n more entries: every entry lies in
\* the anchor, in a directory numbered before it or (spread) in Root, no
\* two entries of a directory share a name, and at most one directory is
\* not "rwx"
RECURSIVE TreesOf(_, _)
TreesOf(inv, n) ==
    IF n = 0
    THEN { << [ name |-> inv.anchor, parent |-> Root, kind |-> "dir", access |-> a ] >> :
             a \in Accesses(inv.privileged) }
    ELSE UNION { UNION { { Append(t, [ name |-> nm, parent |-> d, kind |-> k.kind,
                                       access |-> k.access ]) :
                             nm \in { x \in Names : Later(t, d, x) /\ Lookup(t, d, x) = NoEntry },
                             k \in { x \in Kinds(inv.privileged) :
                                       x.access = "rwx" \/ Restricted(t) = {} } } :
                         d \in { i \in (IF inv.spread THEN 0 ELSE 1)..n : IsDir(t, i) } } :
                 t \in TreesOf(inv, n - 1) }

Trees(inv) == UNION { TreesOf(inv, n) : n \in 0..MaxEntries }

(***************************************************************************)
(* State                                                                   *)
(***************************************************************************)
VARIABLES
    fs,            \* the filesystem
    fs0,           \* the filesystem when walk_directory was called
    directory,     \* the directory argument, as a path
    log_file,      \* --log, as a path
    ignored_dirs,  \* --ignore-dirs
    dry_run,       \* --dry-run
    pc,            \* where the program is: "main", "walk", "level", "done", "crashed", "format"
    stack,         \* os.walk: the paths still to be listed, next first
    top,           \* os.walk: the path of the directory being processed (root)
    files,         \* line 105: the files of this directory still to come
    dirs,          \* line 107: the directories of this directory still to come
    subdirs,       \* os.walk: the directories it will descend into (dirs after line 102)
    log,           \* the messages of this run, one per call of rename_entity
    dry_log,       \* the messages of the dry run that preceded this run
    previewed,     \* whether a dry run preceded this run
    call,          \* the arguments of a call of format_name
    returned       \* what the call returned

vars == << fs, fs0, directory, log_file, ignored_dirs, dry_run, pc, stack, top,
           files, dirs, subdirs, log, dry_log, previewed, call, returned >>

walker == << stack, top, files, dirs, subdirs >>
inputs == << directory, log_file, ignored_dirs >>
formatter == << call, returned >>

NoCall == [ entity |-> << >>, is_file |-> FALSE, year_from_file |-> None ]

(***************************************************************************)
(* main() is started on a filesystem                                       *)
(***************************************************************************)
Init ==
    /\ \E inv \in Invocations :
          /\ directory = inv.directory
          /\ ignored_dirs = inv.ignored
          /\ log_file = inv.log
          /\ fs \in Trees(inv)
    /\ fs0 = fs
    /\ dry_run \in BOOLEAN
    /\ pc = "main"
    /\ stack = << >>
    /\ top = << >>
    /\ files = << >>
    /\ dirs = << >>
    /\ subdirs = << >>
    /\ log = << >>
    /\ dry_log = << >>
    /\ previewed = FALSE
    /\ call = NoCall
    /\ returned = None

\* the filesystem f with a new file named n in directory d
CreateFile(f, d, n) ==
    LET id == IF DOMAIN f = {} THEN 1
              ELSE 1 + CHOOSE m \in DOMAIN f : \A j \in DOMAIN f : j <= m
    IN  [ i \in DOMAIN f \cup { id } |->
            IF i = id THEN [ name |-> n, parent |-> d, kind |-> "file", access |-> "rwx" ]
            ELSE f[i] ]

\* lines 111-129: logging.basicConfig opens the log file for appending,
\* which creates it when it does not exist and raises when it is a
\* directory or cannot be created; then walk_directory is called
Start ==
    /\ pc = "main"
    /\ LET d       == DirOf(fs, log_file)
           present == IF Searchable(fs, d) THEN Lookup(fs, d, basename(log_file))
                      ELSE NoEntry
           opened  == present # NoEntry /\ ~ IsDir(fs, present)
           created == present = NoEntry /\ Writable(fs, d)
       IN  IF opened \/ created
           THEN /\ fs' = IF created THEN CreateFile(fs, d, basename(log_file)) ELSE fs
                /\ fs0' = fs'
                /\ stack' = << directory >>
                /\ pc' = "walk"
           ELSE /\ pc' = "crashed"
                /\ UNCHANGED << fs, fs0, stack >>
    /\ UNCHANGED << inputs, dry_run, top, files, dirs, subdirs, log, dry_log,
                    previewed, formatter >>

\* os.walk takes the next path: a directory is listed and yielded, and the
\* loop body filters both lists (lines 102-104); a path os.scandir raises
\* on is passed over (os.walk's onerror is None)
Yield ==
    /\ pc = "walk"
    /\ stack # << >>
    /\ LET path == Head(stack)
       IN  IF CanList(fs, path)
           THEN \E l \in Listing(Children(fs, Resolve(fs, path))) :
                    /\ top' = path
                    /\ files' = FilterFiles(scandir(fs, l).nondirs)
                    /\ dirs' = FilterDirs(scandir(fs, l).dirs, ignored_dirs)
                    /\ subdirs' = FilterDirs(scandir(fs, l).dirs, ignored_dirs)
                    /\ pc' = "level"
           ELSE /\ UNCHANGED << top, files, dirs, subdirs >>
                /\ pc' = "walk"
    /\ stack' = Tail(stack)
    /\ UNCHANGED << fs, fs0, inputs, dry_run, log, dry_log, previewed, formatter >>

\* one call of rename_entity from the loops of lines 105-108
Entity(name, is_file) ==
    \E listing \in IF ~ is_file /\ CanList(fs, join(top, name))
                    THEN listdir(fs, Resolve(fs, join(top, name)))
                    ELSE { << >> } :
        \E r \in { rename_entity(fs, top, name, dry_run, ignored_dirs, is_file, listing) } :
            /\ fs' = r.fs
            /\ log' = Append(log, [ op |-> r.op, root |-> top, entity |-> name,
                                    new_path |-> r.new_path, entry |-> r.entry ])
            /\ pc' = IF r.op = "raise" THEN "crashed" ELSE "level"

\* line 106
RenameFile ==
    /\ pc = "level"
    /\ files # << >>
    /\ Entity(Head(files), TRUE)
    /\ files' = Tail(files)
    /\ UNCHANGED << fs0, inputs, dry_run, stack, top, dirs, subdirs, dry_log, previewed,
                    formatter >>

\* line 108
RenameDir ==
    /\ pc = "level"
    /\ files = << >>
    /\ dirs # << >>
    /\ Entity(Head(dirs), FALSE)
    /\ dirs' = Tail(dirs)
    /\ UNCHANGED << fs0, inputs, dry_run, stack, top, files, subdirs, dry_log, previewed,
                    formatter >>

\* os.walk goes on after the loop body: the directories left in dirs are
\* walked next, in order, under the names they were listed with
Descend ==
    /\ pc = "level"
    /\ files = << >>
    /\ dirs = << >>
    /\ stack' = [ k \in 1..Len(subdirs) |-> join(top, subdirs[k]) ] \o stack
    /\ pc' = "walk"
    /\ UNCHANGED << fs, fs0, inputs, dry_run, top, files, dirs, subdirs, log, dry_log,
                    previewed, formatter >>

\* os.walk is exhausted and walk_directory returns
Finish ==
    /\ pc = "walk"
    /\ stack = << >>
    /\ pc' = "done"
    /\ UNCHANGED << fs, fs0, inputs, dry_run, walker, log, dry_log, previewed, formatter >>

\* after a dry run, the program is started again with the same arguments
\* but --dry-run
Rerun ==
    /\ pc = "done"
    /\ dry_run
    /\ dry_run' = FALSE
    /\ previewed' = TRUE
    /\ dry_log' = log
    /\ log' = << >>
    /\ pc' = "main"
    /\ UNCHANGED << fs, fs0, inputs, walker, formatter >>

Next == Start \/ Yield \/ RenameFile \/ RenameDir \/ Descend \/ Finish \/ Rerun

Spec == Init /\ [][Next]_vars

\* rename_entity is about to be called: an entity of the level is queued.
\* This is when RenameFile or RenameDir can be taken, and taking either
\* lengthens the log
Queued == pc = "level" /\ (files # << >> \/ dirs # << >>)

\* the same walk under weak fairness of its steps: the program's single
\* thread keeps running until walk_directory returns or an exception ends
\* it (a second start of main() is left to the user).  For the two steps
\* that call rename_entity weak fairness is written out, with Queued for
\* their enabledness
FairSpec ==
    /\ Spec
    /\ WF_vars(Start \/ Yield \/ Descend \/ Finish)
    /\ ([]<>(~ Queued) \/ []<><<RenameFile \/ RenameDir>>_vars)

(***************************************************************************)
(* Properties of the walk                                                  *)
(***************************************************************************)
\* the renames a log reports under message op, as (original path, new path)
Renames(l, op) ==
    LET sel == SelectSeq(l, LAMBDA e : e.op = op)
    IN  [ k \in 1..Len(sel) |-> << join(sel[k].root, sel[k].entity), sel[k].new_path >> ]

\* the directory the walk starts from (NoEntry when the directory argument
\* names none), and the entries of filesystem f that lie under it: the tree
WalkRoot == Resolve(fs0, directory)
Under(f, i) == i # WalkRoot /\ IsDir(fs0, WalkRoot) /\ Beneath(f, WalkRoot, i)

FilesOf(f) == { i \in DOMAIN f : f[i].kind = "file" /\ Under(f, i) }

\* the directories above entry i of the tree, the root of the walk excluded
RECURSIVE Ancestors(_, _)
Ancestors(f, i) ==
    IF f[i].parent = WalkRoot THEN {}
    ELSE { f[i].parent } \cup Ancestors(f, f[i].parent)

Hidden(e) == startswith_dot(e.name)
IgnoredDir(e) == e.kind = "dir" /\ e.name \in ignored_dirs

\* entry i of the initial tree lies beneath a hidden or ignored directory
\* that is itself below the root of the walk
BeneathProtected(i) ==
    \E a \in Ancestors(fs0, i) : Hidden(fs0[a]) \/ IgnoredDir(fs0[a])

\* the components a path of the walk has below the directory argument
Below(path) == { path[j] : j \in (Len(StripSlashes(directory)) + 1)..Len(path) }

\* C1: a dry run of walk_directory leaves the filesystem unchanged: in every
\* state of a dry run the filesystem is the one walk_directory was called on
\* (fs0, taken after main has opened its log file), and no rename is
\* performed or attempted.
C1_DryRunLeavesTree ==
    dry_run => /\ fs = fs0
               /\ \A k \in 1..Len(log) : log[k].op \notin { "renamed", "error" }

\* a dry run has ended and has logged a rename it would make
C1_Witness ==
    /\ dry_run
    /\ pc = "done"
    /\ \E k \in 1..Len(log) : log[k].op = "dry"

\* C2: when a live run follows a dry run on the same tree, the renames the
\* live run performed are, in order, the renames the dry run logged.
C2_DryLogIsLiveRenames ==
    (pc = "done" /\ previewed) => Renames(dry_log, "dry") = Renames(log, "renamed")

\* the call of rename_entity made by this step
LastCall == log'[Len(log')]

\* this step of a live run calls os.rename and the call raises OSError
RenameFails ==
    /\ ~ dry_run
    /\ pc = "level"
    /\ Len(log') = Len(log) + 1
    /\ LastCall.new_path # NoPath
    /\ LastCall.new_path # join(top, LastCall.entity)
    /\ os_rename(fs, join(top, LastCall.entity), LastCall.new_path).raised

\* the failure is logged as an error, the filesystem is as before (what was
\* renamed stays renamed, nothing is retried or undone), and the walk goes
\* on with the entities queued behind the failing one
FailureContained ==
    /\ LastCall.op = "error"
    /\ SubSeq(log', 1, Len(log)) = log
    /\ fs' = fs
    /\ pc' = "level"
    /\ IF files # << >> THEN files' = Tail(files) /\ dirs' = dirs
                        ELSE files' = files /\ dirs' = Tail(dirs)
    /\ UNCHANGED << stack, top, subdirs >>

\* a step taken while entities are queued hands the next one to rename_entity
NextQueuedIsHanded ==
    (pc = "level" /\ (files # << >> \/ dirs # << >>)) =>
        /\ Len(log') = Len(log) + 1
        /\ LastCall.root = top
        /\ LastCall.entity = IF files # << >> THEN Head(files) ELSE Head(dirs)

\* a rename of this run has failed and was logged as an error
FailureLogged == \E k \in 1..Len(log) : log[k].op = "error"

\* C7: in a live run a rename that fails with an OS error is logged at error
\* level, changes nothing, and does not stop the walk: the entities queued
\* behind it are handed to rename_entity, no exception ends the run after
\* the failure, and the run ends normally.
C7_FailureDoesNotStopWalk ==
    /\ [][(RenameFails => FailureContained) /\ NextQueuedIsHanded]_vars
    /\ [](FailureLogged => pc # "crashed")
    /\ (FailureLogged ~> (pc = "done"))

\* C8: no protected entry is ever renamed: an entry that is hidden, a
\* directory named in the ignore set, an entry whose parent directory is
\* named in the ignore set and an entry beneath a hidden or ignored
\* directory (the root directory included) keep their names, and what lies
\* in a hidden or ignored subdirectory is never visited.
Protected(i) ==
    \/ Hidden(fs0[i])
    \/ IgnoredDir(fs0[i])
    \/ BeneathProtected(i)
    \/ (WalkRoot \in DOMAIN fs0 /\ fs0[WalkRoot].name \in ignored_dirs)

C8_ProtectedKeepNames ==
    /\ \A i \in DOMAIN fs0 :
          (Under(fs0, i) /\ Protected(i) /\ i \in DOMAIN fs) =>
              fs[i].name = fs0[i].name /\ fs[i].parent = fs0[i].parent
    /\ \A k \in 1..Len(log) : \A n \in Below(log[k].root) :
          ~ startswith_dot(n) /\ n \notin ignored_dirs

\* C9: a run hands every entry of the tree that is not hidden, not an
\* ignored directory and not beneath a hidden or ignored directory to
\* rename_entity exactly once.
Eligible(i) == ~ Hidden(fs0[i]) /\ ~ IgnoredDir(fs0[i]) /\ ~ BeneathProtected(i)

C9_EveryEntryHandedOnce ==
    pc = "done" =>
        \A i \in DOMAIN fs0 :
            (Under(fs0, i) /\ Eligible(i)) =>
                Cardinality({ k \in 1..Len(log) : log[k].entry = i }) = 1

\* C10: a live run never destroys an entry: the tree holds as many files
\* as it held before the run.
C10_NoFileLost ==
    ~ dry_run => Cardinality(FilesOf(fs)) = Cardinality(FilesOf(fs0))

(***************************************************************************)
(* format_name called on its own: the names are the examples of the        *)
(* documentation and every concatenation of at most MaxTokens tokens       *)
(***************************************************************************)
MaxTokens == 3

Tokens == {
    << "a" >>,
    << "-" >>,
    << "&" >>,
    << ".","2","0","1","9" >>,
    << ".","1","0","8","0","p" >>,
    << " ","(","2","0","1","9",")" >>,
    << " ","[","1","0","8","0","p","]" >>,
    << ".","B","l","u","R","a","y" >>,
    << ".","H","D","R" >>,
    << ".","m","k","v" >>,
    << "\t" >>,
    << "é" >> }

ExampleRelease ==
    << "M","o","v","i","e",".","T","i","t","l","e",".","2","0","1","9",".",
       "1","0","8","0","p",".","B","l","u","R","a","y",".","x","2","6","4",
       "-","G","R","O","U","P",".","m","k","v" >>
ExampleTagged ==
    << "T","i","t","l","e"," ","(","2","0","1","9",")"," ","[","1","0","8","0","p","]" >>
ExampleAmpersand ==
    << "F","a","s","t"," ","&"," ","F","u","r","i","o","u","s"," ","(","2","0","0","1",")" >>
ExampleFolder ==
    << "R","a","n","d","o","m"," ","F","o","l","d","e","r" >>

Examples == { ExampleRelease, ExampleTagged, ExampleAmpersand, ExampleFolder }

RECURSIVE Concat(_)
Concat(ts) == IF ts = << >> THEN << >> ELSE Head(ts) \o Concat(Tail(ts))

FormatInputs ==
    Examples \cup { Concat(ts) : ts \in UNION { [ 1..n -> Tokens ] : n \in 0..MaxTokens } }

FallbackYears == { None, << "2","0","0","1" >> }

InitFormat ==
    /\ call \in [ entity : FormatInputs, is_file : BOOLEAN, year_from_file : FallbackYears ]
    /\ returned = None
    /\ pc = "format"
    /\ fs = << >>
    /\ fs0 = << >>
    /\ directory = << NameLib >>
    /\ log_file = << NameLog >>
    /\ ignored_dirs = {}
    /\ dry_run = TRUE
    /\ stack = << >>
    /\ top = << >>
    /\ files = << >>
    /\ dirs = << >>
    /\ subdirs = << >>
    /\ log = << >>
    /\ dry_log = << >>
    /\ previewed = FALSE

Format ==
    /\ pc = "format"
    /\ returned' = format_name(call.entity, call.is_file, call.year_from_file)
    /\ pc' = "formatted"
    /\ UNCHANGED << fs, fs0, inputs, dry_run, walker, log, dry_log, previewed, call >>

NextFormat == Format

FormatSpec == InitFormat /\ [][NextFormat]_vars

(***************************************************************************)
(* Properties of format_name                                               *)
(***************************************************************************)
\* the name the call works on once the extension is split off and the
\* ampersands are replaced, and the extension that was split off
CallStem == ReplaceAmp(IF call.is_file THEN splitext(call.entity)[1] ELSE call.entity)
CallExtension == IF call.is_file THEN splitext(call.entity)[2] ELSE << >>

\* the call returned at line 21, the name being taken as formatted already
ShortCircuited == MatchesCorrectFormat(splitext(CallStem)[1])

\* the text of s before its first run of four digits
BeforeFirstYear(s) ==
    Upto(s, (CHOOSE i \in YearStarts(s) : \A j \in YearStarts(s) : i <= j) - 1)

MovieTitle2019 ==
    << "M","o","v","i","e"," ","T","i","t","l","e"," ","(","2","0","1","9",")",
       ".","m","k","v" >>

\* C3: when the cleaned name holds four digits in a row, the result is the
\* trimmed text before the first such run, then the run in parentheses,
\* then the extension; the release name of the documentation becomes
\* "Movie Title (2019).mkv".
C3_TitleEndsAtFirstYear ==
    pc = "formatted" =>
        /\ (~ ShortCircuited /\ YearStarts(CleanName(CallStem)) # {}) =>
              returned = Tidy(Strip(BeforeFirstYear(CleanName(CallStem)))
                              \o << " ", "(" >> \o SearchYear(CleanName(CallStem))
                              \o << ")" >>) \o CallExtension
        /\ (call.entity = ExampleRelease /\ call.is_file) => returned = MovieTitle2019

\* a year is found in the name or handed in by the caller
YearAvailable ==
    \/ ShortCircuited
    \/ YearOf(CleanName(CallStem), call.year_from_file) # None

\* the result without the extension the call reattached
ReturnedStem == Upto(returned, Len(returned) - Len(CallExtension))

\* C4: whenever a year is available, the returned stem has the canonical
\* form: word and space characters, a space, a year in parentheses.
C4_CanonicalWhenYear ==
    (pc = "formatted" /\ YearAvailable) => MatchesCorrectFormat(ReturnedStem)

\* the release tags, as substrings
release_tags == {
    << "1","0","8","0","p" >>, << "4","8","0","p" >>, << "2","1","6","0","p" >>,
    << "4","K" >>, << "W","E","B","R","i","p" >>, << "B","l","u","R","a","y" >>,
    << "W","E","B" >>, << "x","2","6","4" >>, << "x","2","6","5" >>,
    << "H","2","6","4" >>, << "H","2","6","5" >>, << "H","E","V","C" >>,
    << ".","H","D","R","." >>, << ".","A","C","3","." >>,
    << ".","E","A","C","3","." >>, << ".","A","A","C","." >>,
    << ".","M","P","3","." >>, << ".","A","V","C","." >>,
    << "5",".","1" >>, << "Y","T","S",".","M","X" >> }

\* s holds a release tag, in any letter case
HasTag(s) ==
    \E i \in 1..Len(s) :
        \/ \E t \in release_tags : MatchAt(t, s, i)
        \/ SeasonEpisodeEnd(s, i) # 0

\* C5: a name that holds a release tag is returned without any release tag.
C5_NoTagRemains ==
    (pc = "formatted" /\ HasTag(call.entity)) => ~ HasTag(returned)

\* C6: the extension of the name returned for a file, split off as
\* os.path.splitext does, is the extension of the name passed.
C6_ExtensionPreserved ==
    (pc = "formatted" /\ call.is_file) =>
        splitext(returned)[2] = splitext(call.entity)[2]

====
